---- MODULE Spec2Model ----
(***************************************************************************)
(* OrgaKnow retention dashboard (New_App.py): the risk model, the weight   *)
(* configuration store with its preview/apply flow, and the persisted      *)
(* Employee, Action and Exit tables.                                       *)
(*                                                                         *)
(* One action is one Streamlit script pass: the pass triggered by one      *)
(* widget interaction, run from the top of the script to its end, to the   *)
(* first st.stop()/st.rerun(), or to the first uncaught exception.         *)
(*                                                                         *)
(* Numbers.  A risk percentage is kept in hundredths of a percent (the     *)
(* code rounds to 2 decimals), so 16.67 is 1667.  A weight is kept in      *)
(* units of 0.05, the step of the sliders, so 0.25 is 5 and 1.0 is 20.     *)
(* Scoring only uses ratios of weights, so the unit cancels.               *)
(***************************************************************************)
EXTENDS Integers, Sequences, FiniteSets, TLC

VARIABLES
    logged_in,      \* st.session_state.logged_in
    user,           \* st.session_state.user
    preview_df,     \* st.session_state.preview_df: <<>> when the key is absent, else <<rows>>
    new_weights,    \* the five slider widgets of the CHRO sidebar
    risk_config,    \* risk_config.json: <<>> when the file is absent, else <<weights>>
    employees,      \* employees.csv
    actions_df,     \* attrition_actions.csv
    exit_df,        \* exit_intelligence.csv
    last,           \* what the last pass reported: st.success / st.error / exception
    probe           \* the last call of a pure function: arguments and results

vars == <<logged_in, user, preview_df, new_weights, risk_config, employees,
          actions_df, exit_df, last, probe>>

---------------------------------------------------------------------------
(* Bounds of the model *)

\* rows in employees.csv
MaxEmployees == 1
\* largest factor c by which a weight configuration is scaled
MaxScale == 5
\* rows in employees.csv where the table is followed past its first row
MaxRecords == 2
\* rows in attrition_actions.csv
MaxActions == 2
\* rows in exit_intelligence.csv
MaxExits == 2
\* Action Records on file when the failed-action map alone is computed.
MaxFailed == 4
\* Action Records on file when the retention rate alone is computed.
MaxTracked == 10

---------------------------------------------------------------------------
(* Values *)

Keys == {"js", "wl", "ms", "cg", "stress"}

\* A pandas NaN in a numeric column (a missing value after index alignment).
NaN == -1000000

\* A pandas NaN in a text column.
NaNText == "NaN"

Weights(js, wl, ms, cg, stress) ==
    [k \in Keys |-> CASE k = "js" -> js [] k = "wl" -> wl [] k = "ms" -> ms
                      [] k = "cg" -> cg [] OTHER -> stress]

Survey(js, wl, ms, cg, stress) == Weights(js, wl, ms, cg, stress)

\* defaults of load_risk_weights: 0.25, 0.20, 0.20, 0.15, 0.30
DefaultWeights == Weights(5, 4, 4, 3, 6)

load_risk_weights ==
    IF risk_config = <<>> THEN DefaultWeights ELSE risk_config[1]

---------------------------------------------------------------------------
(* Risk model *)

\* Python's round(): n/d to the nearest integer, ties to the even one (n >= 0, d > 0).
RoundHalfEven(n, d) ==
    LET q == n \div d
        r == n % d
    IN  IF 2 * r < d THEN q
        ELSE IF 2 * r > d THEN q + 1
        ELSE IF q % 2 = 0 THEN q ELSE q + 1

SumWeights(w) == w["js"] + w["wl"] + w["ms"] + w["cg"] + w["stress"]

\* A bug of the kind the normalisation guards against: the weights are used as given.
calculate_attrition_risk_unnormalised(sv, w) ==
    IF \E k \in Keys : sv[k] = NaN THEN NaN
    ELSE LET raw20 == (6 - sv["js"]) * w["js"] + (6 - sv["wl"]) * w["wl"]
                        + (6 - sv["ms"]) * w["ms"] + (6 - sv["cg"]) * w["cg"]
                        + sv["stress"] * w["stress"]
         IN  IF raw20 * 100 > 100 * 6 * 20 THEN 10000
             ELSE RoundHalfEven(10000 * raw20, 6 * 20)

\* A bug of the kind the zero-weight defence guards against: the sum of the weights
\* is used as the divisor as it is, and the call ends in ZeroDivisionError (no value,
\* shown as NaN) when it is 0.
calculate_attrition_risk_unguarded(sv, w) ==
    IF \E k \in Keys : sv[k] = NaN THEN NaN
    ELSE IF SumWeights(w) = 0 THEN NaN
    ELSE LET total_weight == SumWeights(w)
             raw_num == (6 - sv["js"]) * w["js"] + (6 - sv["wl"]) * w["wl"]
                          + (6 - sv["ms"]) * w["ms"] + (6 - sv["cg"]) * w["cg"]
                          + sv["stress"] * w["stress"]
         IN  IF raw_num * 100 > 100 * 6 * total_weight THEN 10000
             ELSE RoundHalfEven(10000 * raw_num, 6 * total_weight)

\* calculate_attrition_risk(js, wl, ms, cg, stress, weights), in hundredths of a percent.
calculate_attrition_risk(sv, w) ==
    IF \E k \in Keys : sv[k] = NaN THEN NaN
    ELSE LET total_weight == IF SumWeights(w) = 0 THEN 1 ELSE SumWeights(w)
             raw_num == (6 - sv["js"]) * w["js"] + (6 - sv["wl"]) * w["wl"]
                          + (6 - sv["ms"]) * w["ms"] + (6 - sv["cg"]) * w["cg"]
                          + sv["stress"] * w["stress"]
         IN  \* raw_score = raw_num / total_weight; pct = raw_score / 6 * 100
             IF raw_num * 100 > 100 * 6 * total_weight THEN 10000
             ELSE RoundHalfEven(10000 * raw_num, 6 * total_weight)

\* A bug of the kind the boundary tests guard against: > for >=.
risk_band_strict(score) ==
    IF score = NaN THEN "Low"
    ELSE IF score > 7000 THEN "High"
    ELSE IF score > 4000 THEN "Medium"
    ELSE "Low"

\* risk_band(score): every comparison with NaN is false, so NaN falls to the else branch.
risk_band(score) ==
    IF score = NaN THEN "Low"
    ELSE IF score >= 7000 THEN "High"
    ELSE IF score >= 4000 THEN "Medium"
    ELSE "Low"

---------------------------------------------------------------------------
(* Inputs of the model: the values a user can give the widgets *)

\* The accounts of the auth collaborator: one per role literal the script compares with.
Users ==
    { [role |-> "CHRO", department |-> "All"],
      [role |-> "HRBP", department |-> "HR"],
      [role |-> "Manager", department |-> "Sales"],
      [role |-> "Admin", department |-> "All"] }

NoUser == [role |-> "none", department |-> "none"]

\* The slider moved in the model, and the positions it is moved to (0.30 and 1.0).
SliderKeys == {"stress"}
SliderValues == {6, 20}

\* Manual entry and upload.  The survey answer (3,3,3,3,1) scores 40.91 (Medium)
\* under the default weights and 31.48 (Low) with Stress Impact at 1.0.
EmployeeIds == {"E1", "E2"}
Departments == {"HR"}
RoleLevels == {"Staff"}
SurveyInputs == { Survey(3, 3, 3, 3, 1) }

\* The rows of an uploaded employee CSV: identity and the five survey scores.
UploadRow(id, dep, role, sv) ==
    [EmployeeID |-> id, Department |-> dep, Role |-> role, sv |-> sv]

UploadFiles ==
    { << UploadRow("E1", "HR", "Staff", Survey(3, 3, 3, 3, 1)) >>,
      << UploadRow("E2", "HR", "Staff", Survey(3, 3, 3, 3, 1)),
         UploadRow("E2", "HR", "Staff", Survey(3, 3, 3, 3, 1)) >> }

\* An Action Record and an Exit Record (the columns the script reads).
ActionRow(id, dep, score, band, action, outcome, date) ==
    [EmployeeID |-> id, Department |-> dep, RiskScore |-> score, RiskBand |-> band,
     SelectedAction |-> action, OutcomeStatus |-> outcome, OutcomeDate |-> date]

\* SecondaryExitReason is "None" in every Exit Record made here: the import sets it,
\* and the manual entry's selectbox is left at its first option.
ExitRow(id, date, reason, taken) ==
    [EmployeeID |-> id, ExitDate |-> date, PrimaryExitReason |-> reason,
     SecondaryExitReason |-> "None", ActionTaken |-> taken]

\* attrition_actions.csv and exit_intelligence.csv as earlier sessions left them:
\* nothing; an action for E1, who was then marked Left; and that with E1's exit
\* recorded.  (E1 was entered under the default weights and the Employee table was
\* erased afterwards.)
StoredTables ==
    { [actions |-> <<>>, exits |-> <<>>],
      [actions |-> << ActionRow("E1", "HR", 4091, "Medium", "Compensation Review",
                                "Left", "2024-01-31") >>,
       exits |-> <<>>],
      [actions |-> << ActionRow("E1", "HR", 4091, "Medium", "Compensation Review",
                                "Left", "2024-01-31") >>,
       exits |-> << ExitRow("E1", "2024-01-31", "Compensation", "Yes") >>] }

---------------------------------------------------------------------------
(* Helpers *)

Report(op, result) == [op |-> op, result |-> result]

\* likely_exit_reason = None
NoReason == "<None>"

NoProbe == [fn |-> "none", sv |-> Survey(1, 1, 1, 1, 1), w |-> DefaultWeights,
            c |-> 1, score |-> 0, risk |-> 0, risk_scaled |-> 0, band |-> "Low",
            emp |-> 0, likely |-> NoReason, avoid |-> <<>>, available |-> <<>>,
            rate |-> 0, table |-> <<>>]

HasPreview == preview_df /= <<>>

\* guard(allowed_roles): TRUE when the pass goes on, FALSE when it st.stop()s.
guard(allowed_roles) == user.role \in allowed_roles

\* A bug: the sidebar block is shown to the HR business partner too.
chro_controls_hrbp == user.role \in {"CHRO", "HRBP"}

\* `if role == "CHRO":` around the sliders and the Preview / Save & Apply buttons,
\* and around the Clear Preview button.
chro_controls == user.role = "CHRO"

\* EmployeeID cells of a CSV file that pd.read_csv parses as a number: "007" and "7"
\* are the integer 7, "7.0" is the float 7.0.
IntegerCells == {"007", "7"}
FloatCells == {"7.0"}

\* str(int(cell)) and str(float(cell)) of such a cell.
IntegerText(cell) == "7"
FloatText(cell) == "7.0"

\* The EmployeeID column as pd.read_csv infers it, every value shown as to_csv would
\* write it again: int64 when every cell is an integer (leading zeros are lost),
\* float64 when every cell is a number or empty, else the text as it is in the file.
read_csv_ids(rows) ==
    IF \A i \in 1..Len(rows) : rows[i].EmployeeID \in IntegerCells
    THEN [i \in 1..Len(rows) |-> IntegerText(rows[i].EmployeeID)]
    ELSE IF \A i \in 1..Len(rows) :
               rows[i].EmployeeID \in IntegerCells \cup FloatCells \cup {NaNText}
    THEN [i \in 1..Len(rows) |->
             IF rows[i].EmployeeID = NaNText THEN NaNText
             ELSE FloatText(rows[i].EmployeeID)]
    ELSE [i \in 1..Len(rows) |-> rows[i].EmployeeID]

\* Cells pd.read_csv takes for a missing value (its default na_values; pandas has
\* "None" among them from 2.0 on, and the repository pins no version).
NaCells == {"None", "NaN"}

\* A text cell as pd.read_csv loads it; to_csv writes a missing value as an empty
\* cell, which NaNText stands for.
read_csv_cell(cell) == IF cell \in NaCells THEN NaNText ELSE cell

\* pd.read_csv(file): the rows of the file with the EmployeeID column as inferred
\* and, in an Exit table, the SecondaryExitReason column as loaded.
read_csv(rows) ==
    [i \in 1..Len(rows) |->
        IF "SecondaryExitReason" \in DOMAIN rows[i]
        THEN [rows[i] EXCEPT !.EmployeeID = read_csv_ids(rows)[i],
                             !.SecondaryExitReason = read_csv_cell(@)]
        ELSE [rows[i] EXCEPT !.EmployeeID = read_csv_ids(rows)[i]]]

\* Series.astype(str) on one value: a missing value becomes the text "nan".
astype_str(v) == IF v = NaNText THEN "nan" ELSE v

\* A scored Employee Record (Name and Tenure are carried along unread and left out).
EmployeeRow(id, dep, role, sv, w) ==
    [EmployeeID |-> id, Department |-> dep, Role |-> role, sv |-> sv,
     AttritionRisk |-> calculate_attrition_risk(sv, w),
     RiskBand |-> risk_band(calculate_attrition_risk(sv, w))]

\* Float subtraction of two columns: NaN when either side is NaN.
Minus(a, b) == IF a = NaN \/ b = NaN THEN NaN ELSE a - b

\* A bug: the preview is computed with the production weights, not the sliders'.
PreviewRow_production(r, w) ==
    LET pr == calculate_attrition_risk(r.sv, load_risk_weights)
    IN  [EmployeeID |-> r.EmployeeID, Department |-> r.Department, Role |-> r.Role,
         sv |-> r.sv,
         AttritionRisk |-> r.AttritionRisk, RiskBand |-> r.RiskBand,
         PreviewRisk |-> pr, PreviewBand |-> risk_band(pr),
         RiskDelta |-> Minus(pr, r.AttritionRisk),
         BandChanged |-> (r.RiskBand /= risk_band(pr))]

\* One row of sim_df: the Employee Record and its four preview columns.
PreviewRow(r, w) ==
    LET pr == calculate_attrition_risk(r.sv, w)
    IN  [EmployeeID |-> r.EmployeeID, Department |-> r.Department, Role |-> r.Role,
         sv |-> r.sv,
         AttritionRisk |-> r.AttritionRisk, RiskBand |-> r.RiskBand,
         PreviewRisk |-> pr, PreviewBand |-> risk_band(pr),
         RiskDelta |-> Minus(pr, r.AttritionRisk),
         BandChanged |-> (r.RiskBand /= risk_band(pr))]

\* The row pandas makes when a column is assigned to a frame that has no rows:
\* the frame takes the assigned Series' index and every other column is NaN.
NaNRow ==
    [EmployeeID |-> NaNText, Department |-> NaNText, Role |-> NaNText,
     sv |-> [k \in Keys |-> NaN],
     AttritionRisk |-> NaN, RiskBand |-> NaNText]

\* employee_df_full["AttritionRisk"] = preview_df["PreviewRisk"] and the same for
\* RiskBand: assignment of a Series aligns on the row index, 0..n-1 in both frames.
\* A row the preview does not have gets NaN.
ApplyPreview(emps, prev) ==
    IF emps = <<>>
    THEN [i \in 1..Len(prev) |->
            [NaNRow EXCEPT !.AttritionRisk = prev[i].PreviewRisk,
                           !.RiskBand = prev[i].PreviewBand]]
    ELSE [i \in 1..Len(emps) |->
            IF i <= Len(prev)
            THEN [emps[i] EXCEPT !.AttritionRisk = prev[i].PreviewRisk,
                                 !.RiskBand = prev[i].PreviewBand]
            ELSE [emps[i] EXCEPT !.AttritionRisk = NaN, !.RiskBand = NaNText]]

---------------------------------------------------------------------------
(* Initial state: no session, no employees.csv and no risk_config.json *)

Init ==
    /\ logged_in = FALSE
    /\ user = NoUser
    /\ preview_df = <<>>
    /\ new_weights = DefaultWeights
    /\ risk_config = <<>>
    /\ employees = <<>>
    /\ \E t \in StoredTables : actions_df = t.actions /\ exit_df = t.exits
    /\ last = Report("start", "ok")
    /\ probe = NoProbe

---------------------------------------------------------------------------
(* Session *)

\* Secure Login with credentials the auth collaborator accepts.  The pass ends in
\* st.rerun(); the next pass renders the sliders at CURRENT_WEIGHTS.
Login ==
    /\ ~logged_in
    /\ \E u \in Users : user' = u
    /\ logged_in' = TRUE
    /\ new_weights' = load_risk_weights
    /\ last' = Report("login", "ok")
    /\ UNCHANGED <<preview_df, risk_config, employees, actions_df, exit_df, probe>>

\* check_session_timeout when more than SESSION_TIMEOUT seconds have passed:
\* every session key is deleted and the pass stops.
SessionTimeout ==
    /\ logged_in
    /\ logged_in' = FALSE
    /\ user' = NoUser
    /\ preview_df' = <<>>
    /\ new_weights' = load_risk_weights
    /\ last' = Report("timeout", "SessionExpired")
    /\ UNCHANGED <<risk_config, employees, actions_df, exit_df, probe>>

\* Logout.  The handler calls log_logout, a name the script never imports (it
\* imports log_login only): the call raises NameError and the pass ends there, before
\* any session key is deleted.
Logout ==
    /\ logged_in
    /\ last' = Report("logout", "NameError")
    /\ UNCHANGED <<logged_in, user, preview_df, new_weights, risk_config, employees,
                   actions_df, exit_df, probe>>

---------------------------------------------------------------------------
(* CHRO controls: sliders, Preview Impact, Save & Apply Model, Clear Preview *)

\* One slider is moved; the pass reads the five sliders into new_weights.
SetSlider ==
    /\ logged_in /\ chro_controls
    /\ \E k \in SliderKeys, v \in SliderValues :
          /\ new_weights[k] /= v
          /\ new_weights' = [new_weights EXCEPT ![k] = v]
    /\ last' = Report("slider", "ok")
    /\ UNCHANGED <<logged_in, user, preview_df, risk_config, employees,
                   actions_df, exit_df, probe>>

\* Preview Impact.  On a frame without rows DataFrame.apply(axis=1) returns a frame,
\* not a Series, and the column assignment raises ValueError before preview_df is set.
Preview ==
    /\ logged_in /\ chro_controls
    /\ IF employees = <<>>
       THEN /\ last' = Report("preview", "ValueError")
            /\ UNCHANGED preview_df
       ELSE /\ preview_df' =
                 << [i \in 1..Len(employees) |->
                        PreviewRow(read_csv(employees)[i], new_weights)] >>
            /\ last' = Report("preview", "ok")
    /\ UNCHANGED <<logged_in, user, new_weights, risk_config, employees,
                   actions_df, exit_df, probe>>

\* A bug: the check that a preview is held is missing; the configuration is written
\* and the pass then ends on the missing session key.
Apply_unchecked ==
    /\ logged_in /\ chro_controls
    /\ risk_config' = <<new_weights>>
    /\ IF ~HasPreview
       THEN /\ last' = Report("apply", "KeyError")
            /\ UNCHANGED employees
       ELSE /\ employees' = ApplyPreview(read_csv(employees), preview_df[1])
            /\ last' = Report("apply", "ok")
    /\ UNCHANGED <<logged_in, user, preview_df, new_weights, actions_df, exit_df, probe>>

\* Save & Apply Model.  risk_config.json is written first, from the sliders as they
\* are now; then the two columns are taken from the preview held in the session; then
\* employees.csv is written.  A write of employees.csv that fails leaves the file as
\* it was and ends the pass with the exception.  preview_df is not deleted.
Apply ==
    /\ logged_in /\ chro_controls
    /\ IF ~HasPreview
       THEN /\ last' = Report("apply", "PreconditionNotMet")
            /\ UNCHANGED <<risk_config, employees>>
       ELSE /\ risk_config' = <<new_weights>>
            /\ \E written \in BOOLEAN :
                  IF written
                  THEN /\ employees' = ApplyPreview(read_csv(employees), preview_df[1])
                       /\ last' = Report("apply", "ok")
                  ELSE /\ employees' = employees
                       /\ last' = Report("apply", "IOError")
    /\ UNCHANGED <<logged_in, user, preview_df, new_weights, actions_df, exit_df, probe>>

\* A bug: clearing the preview also puts the weights back to the defaults.
ClearPreview_resets ==
    /\ logged_in /\ chro_controls /\ HasPreview
    /\ preview_df' = <<>>
    /\ risk_config' = <<>>
    /\ last' = Report("clear", "ok")
    /\ UNCHANGED <<logged_in, user, new_weights, employees, actions_df, exit_df, probe>>

\* Clear Preview: shown only while preview_df is in the session.
ClearPreview ==
    /\ logged_in /\ chro_controls /\ HasPreview
    /\ preview_df' = <<>>
    /\ last' = Report("clear", "ok")
    /\ UNCHANGED <<logged_in, user, new_weights, risk_config, employees,
                   actions_df, exit_df, probe>>

---------------------------------------------------------------------------
(* Tab 1: employees *)

\* Upload Employee CSV (CHRO only): every row is scored with the persisted weights
\* and the rows are appended; EmployeeID is not checked.  This is the pass in which
\* the file is handed to the uploader; the other passes are taken with the uploader
\* empty (a file left in the widget is appended again by every pass that reaches
\* tab 1).  cap bounds the table in the model.
BulkUploadUpTo(cap) ==
    /\ logged_in /\ user.role = "CHRO"
    /\ \E f \in UploadFiles :
          /\ Len(employees) + Len(f) <= cap
          /\ employees' = read_csv(employees) \o
               [i \in 1..Len(f) |->
                   EmployeeRow(read_csv(f)[i].EmployeeID, f[i].Department, f[i].Role,
                               f[i].sv, load_risk_weights)]
    /\ last' = Report("upload", "ok")
    /\ UNCHANGED <<logged_in, user, preview_df, new_weights, risk_config,
                   actions_df, exit_df, probe>>

BulkUpload == BulkUploadUpTo(MaxEmployees)

\* Save & Predict Risk: open to every logged-in role (the button is above the first
\* guard of the script).  Scored with the persisted weights.  The typed emp_id is
\* looked up in the EmployeeID column of the file as read, cast to str.  ids are the
\* identifiers typed in the model and cap bounds the table in the model.
ManualEntryOf(ids, cap) ==
    /\ logged_in
    /\ \E emp_id \in ids, dep \in Departments, role \in RoleLevels, sv \in SurveyInputs :
          LET employee_df_full == read_csv(employees)
          IN  IF \E i \in 1..Len(employee_df_full) :
                     astype_str(employee_df_full[i].EmployeeID) = emp_id
              THEN /\ last' = Report("entry", "DuplicateKey")
                   /\ UNCHANGED employees
              ELSE /\ Len(employees) < cap
                   /\ employees' = Append(employee_df_full,
                                          EmployeeRow(emp_id, dep, role, sv, load_risk_weights))
                   /\ last' = Report("entry", "ok")
    /\ UNCHANGED <<logged_in, user, preview_df, new_weights, risk_config,
                   actions_df, exit_df, probe>>

ManualEntry == ManualEntryOf(EmployeeIds, MaxEmployees)

\* Erase Employee Master Data, behind guard(["CHRO"]); asks for the confirmation box.
Erase ==
    /\ logged_in /\ guard({"CHRO"})
    /\ \E confirm_delete \in BOOLEAN :
          IF confirm_delete
          THEN /\ employees' = <<>>
               /\ last' = Report("erase", "ok")
          ELSE /\ UNCHANGED employees
               /\ last' = Report("erase", "NotConfirmed")
    /\ UNCHANGED <<logged_in, user, preview_df, new_weights, risk_config,
                   actions_df, exit_df, probe>>

---------------------------------------------------------------------------
(* Access control and the exit learning layer *)

\* A bug: only the HRBP is scoped to a department; a Manager sees every row.
filter_employee_data_hrbp_only(df, role, department) ==
    IF df = <<>> THEN df
    ELSE IF role \in {"CHRO", "Admin", "Manager"} THEN df
    ELSE IF role = "HRBP"
         THEN IF department = "All" THEN df
              ELSE SelectSeq(df, LAMBDA r : r.Department = department)
    ELSE df

\* filter_employee_data(df, role, department) of rbac.py
filter_employee_data(df, role, department) ==
    IF df = <<>> THEN df
    ELSE IF role \in {"CHRO", "Admin"} THEN df
    ELSE IF role \in {"HRBP", "Manager"}
         THEN IF department = "All" THEN df
              ELSE SelectSeq(df, LAMBDA r : r.Department = department)
    ELSE df

\* The rows of table a left join on EmployeeID pairs with the key id; 0 stands for
\* the row of NaN the join makes when the table has none.
JoinMatches(id, table) ==
    LET m == { j \in 1..Len(table) : table[j].EmployeeID = id }
    IN  IF m = {} THEN {0} ELSE m

\* exit_merged: exit_df left-joined with actions_df and then with employee_df_full.
\* One row for every exit, every Action Record of its employee and every Employee
\* Record of its employee; i, j, k say which, so equal rows stay apart.  Role and
\* Department_Employee come from the Employee table.  The empty set is the empty
\* frame the script takes when exit_df is empty.
exit_merged(exits, actions, emps) ==
    UNION { { [i |-> i, j |-> j, k |-> k,
               PrimaryExitReason |-> exits[i].PrimaryExitReason,
               ActionTaken |-> exits[i].ActionTaken,
               SelectedAction |-> IF j = 0 THEN NaNText ELSE actions[j].SelectedAction,
               Role |-> IF k = 0 THEN NaNText ELSE emps[k].Role,
               Department_Employee |-> IF k = 0 THEN NaNText ELSE emps[k].Department] :
                 j \in JoinMatches(exits[i].EmployeeID, actions),
                 k \in JoinMatches(exits[i].EmployeeID, emps) } :
            i \in 1..Len(exits) }

\* action_learning_summary: FailureCount of (reason, action) over the rows with
\* ActionTaken == "Yes" (groupby leaves out the rows whose SelectedAction is NaN).
FailureCount(view, reason, action) ==
    Cardinality({ v \in view : /\ v.ActionTaken = "Yes"
                               /\ v.PrimaryExitReason = reason
                               /\ v.SelectedAction = action })

\* The actions action_learning_summary has a row for under reason.
LearnedActions(view, reason) ==
    { v.SelectedAction : v \in { x \in view : /\ x.ActionTaken = "Yes"
                                                /\ x.PrimaryExitReason = reason
                                                /\ x.SelectedAction /= NaNText } }

\* A bug: head(2) without the sort: two of the reason's actions, whatever their
\* counts.
failed_action_map_unsorted(view, reason) ==
    LET acts == LearnedActions(view, reason)
        n == IF Cardinality(acts) < 2 THEN Cardinality(acts) ELSE 2
    IN  IF acts = {} THEN {}
        ELSE { l \in [1..n -> acts] : \A p, q \in 1..n : p < q => l[p] /= l[q] }

\* failed_action_map[reason]: the lists sort_values(FailureCount, descending) and
\* head(2) can give: the two first actions of the reason in an order of falling
\* count.  The sort is not stable, so actions of equal count come in any order.  No
\* list when the map has no entry for the reason.
failed_action_map(view, reason) ==
    LET acts == LearnedActions(view, reason)
        n == IF Cardinality(acts) < 2 THEN Cardinality(acts) ELSE 2
    IN  IF acts = {} THEN {}
        ELSE { l \in [1..n -> acts] :
                 /\ \A p, q \in 1..n : p < q =>
                        /\ l[p] /= l[q]
                        /\ FailureCount(view, reason, l[p]) >= FailureCount(view, reason, l[q])
                 /\ \A a \in acts : (\A p \in 1..n : l[p] /= a) =>
                        \A p \in 1..n :
                           FailureCount(view, reason, l[p]) >= FailureCount(view, reason, a) }

\* A bug: the exits of the employee's role are taken, whatever their department.
similar_exits_role_only(view, emp) ==
    { v \in view : v.Role /= NaNText /\ v.Role = emp.Role }

\* similar_exits: the rows of exit_merged whose Role and Department_Employee are the
\* selected employee's (a NaN of the join equals nothing).
similar_exits(view, emp) ==
    { v \in view : /\ v.Role /= NaNText /\ v.Role = emp.Role
                   /\ v.Department_Employee /= NaNText
                   /\ v.Department_Employee = emp.Department }

\* likely_exit_reason: value_counts().idxmax() of similar_exits, None when there is
\* none.  Reasons of equal count: value_counts puts either first.
likely_exit_reason(view, emp) ==
    LET similar == similar_exits(view, emp)
        reasons == { v.PrimaryExitReason : v \in similar }
        count(r) == Cardinality({ v \in similar : v.PrimaryExitReason = r })
    IN  IF similar = {} THEN {NoReason}
        ELSE { r \in reasons : \A q \in reasons : count(r) >= count(q) }

\* The catalog of the Recommended Action selectbox (the dash of the last entry is
\* written in ASCII).
ActionCatalog ==
    << "Career Path Discussion", "Compensation Review", "Manager Coaching / 1:1",
       "Internal Role Movement", "Workload Rebalancing", "Training / Upskilling",
       "Engagement Survey Follow-up", "No Action - Monitor" >>

\* A bug: only the action that failed most often is taken out.
available_actions_first(avoid_actions) ==
    SelectSeq(ActionCatalog,
              LAMBDA a : avoid_actions = <<>> \/ a /= avoid_actions[1])

\* [a for a in available_actions if a not in avoid_actions]
available_actions(avoid_actions) ==
    SelectSeq(ActionCatalog,
              LAMBDA a : \A p \in 1..Len(avoid_actions) : avoid_actions[p] /= a)

\* SMART ACTION NUDGE: what one pass can compute for the selected employee: the
\* likely exit reason, the actions to avoid (<<>> when nothing is filtered) and the
\* list the Recommended Action selectbox offers.
smart_action_nudge(view, emp) ==
    UNION { IF likely = NoReason \/ failed_action_map(view, likely) = {}
            THEN { [likely |-> likely, avoid |-> <<>>,
                    available |-> ActionCatalog] }
            ELSE { [likely |-> likely, avoid |-> l,
                    available |-> available_actions(l)] :
                      l \in failed_action_map(view, likely) } :
            likely \in likely_exit_reason(view, emp) }

---------------------------------------------------------------------------

Next ==
    \/ Login
    \/ SessionTimeout
    \/ Logout
    \/ SetSlider
    \/ Preview
    \/ Apply
    \/ ClearPreview
    \/ BulkUpload
    \/ ManualEntry
    \/ Erase

Spec == Init /\ [][Next]_vars

---------------------------------------------------------------------------
(* The Employee table followed to MaxRecords rows, in one session: the state after
   a successful login, then entries, uploads and the preview/apply flow. *)

\* Identifiers typed into the Employee ID box: a text one and one with leading zeros.
RecordIds == {"E1", "007"}

InitRecords ==
    /\ logged_in = TRUE
    /\ user \in Users
    /\ preview_df = <<>>
    /\ new_weights = DefaultWeights
    /\ risk_config = <<>>
    /\ employees = <<>>
    /\ actions_df = <<>>
    /\ exit_df = <<>>
    /\ last = Report("login", "ok")
    /\ probe = NoProbe

ManualEntryRecords == ManualEntryOf(RecordIds, MaxRecords)

BulkUploadRecords == BulkUploadUpTo(MaxRecords)

NextRecords ==
    \/ ManualEntryRecords
    \/ BulkUploadRecords
    \/ SetSlider
    \/ Preview
    \/ Apply
    \/ ClearPreview

SpecRecords == InitRecords /\ [][NextRecords]_vars

---------------------------------------------------------------------------
(* Actions, outcomes and exits: tabs 3, 6 and 7, in one session.  A pass of a role
   other than CHRO stops at guard(["CHRO"]) of the data management controls of
   tab 1, before any of these tabs is rendered. *)

\* What the user picks in the model.
ActionChoices == {"Compensation Review"}
Outcomes == {"Left"}
DateInputs == {"2024-01-31"}
ExitReasons == {"Compensation"}
ActionTakenInputs == {"Yes"}

\* pd.to_datetime(errors="coerce") gives a date for these texts and NaT for others.
Parseable(date) == date \in {"2024-01-31", "2024-02-29"}

\* Exit CSV files handed to the uploader, their columns already named as the
\* required fields (the mapping selectboxes are left at their defaults): an unknown
\* employee before a known one; a date that cannot be read; and an identifier with
\* leading zeros beside an unknown text one.
ExitUploadFiles ==
    { << ExitRow("E9", "2024-02-29", "Career Growth", "No"),
         ExitRow("E1", "2024-02-29", "Compensation", "Yes") >>,
      << ExitRow("E1", "soon", "Compensation", "Yes") >>,
      << ExitRow("007", "2024-02-29", "Compensation", "Yes"),
         ExitRow("E9", "2024-02-29", "Career Growth", "No") >> }

\* employees.csv as earlier sessions left it, entered under the default weights: two
\* employees with text identifiers, or one whose identifier has leading zeros.
CaseEmployees ==
    { << EmployeeRow("E1", "HR", "Staff", Survey(3, 3, 3, 3, 1), DefaultWeights),
         EmployeeRow("E2", "Sales", "Staff", Survey(3, 3, 3, 3, 1), DefaultWeights) >>,
      << EmployeeRow("007", "HR", "Staff", Survey(3, 3, 3, 3, 1), DefaultWeights) >> }

\* What the import pass shows: the uploaded file, the number of rows skipped (the
\* warning, shown when it is not 0) and the number imported (the success message).
ImportReport(upload, skipped, imported) ==
    [op |-> "import", result |-> "ok", upload |-> upload,
     skipped |-> skipped, imported |-> imported]

\* The state after login; a CHRO has moved Stress Impact to 1.0 and pressed
\* Preview Impact.
InitCase ==
    /\ logged_in = TRUE
    /\ user \in Users
    /\ employees \in CaseEmployees
    /\ new_weights = IF chro_controls THEN [DefaultWeights EXCEPT !["stress"] = 20]
                     ELSE DefaultWeights
    /\ preview_df = IF chro_controls
                    THEN << [i \in 1..Len(employees) |->
                               PreviewRow(read_csv(employees)[i], new_weights)] >>
                    ELSE <<>>
    /\ risk_config = <<>>
    /\ actions_df = <<>>
    /\ exit_df = <<>>
    /\ last = IF chro_controls THEN Report("preview", "ok") ELSE Report("login", "ok")
    /\ probe = NoProbe

\* A bug: the outcome is written to the first Action Record of the employee.
SaveOutcome_first ==
    /\ logged_in
    /\ IF ~guard({"CHRO"})
       THEN /\ last' = Report("outcome", "AccessDenied")
            /\ UNCHANGED actions_df
       ELSE /\ actions_df /= <<>>
            /\ guard({"CHRO", "HRBP"})
            /\ \E j \in 1..Len(actions_df), outcome \in Outcomes, outcome_date \in DateInputs :
                  LET loaded == read_csv(actions_df)
                      emp_id == loaded[j].EmployeeID
                      idx == CHOOSE x \in 1..Len(loaded) :
                                /\ loaded[x].EmployeeID = emp_id
                                /\ \A y \in 1..Len(loaded) :
                                      loaded[y].EmployeeID = emp_id => y >= x
                  IN  actions_df' = [loaded EXCEPT ![idx].OutcomeStatus = outcome,
                                                   ![idx].OutcomeDate = outcome_date]
            /\ last' = Report("outcome", "ok")
    /\ UNCHANGED <<logged_in, user, preview_df, new_weights, risk_config, employees,
                   exit_df, probe>>

\* Save Action Decision (tab 3).  The employee is picked from the Medium and High
\* rows of the user's view, the action from the list the nudge leaves.
SaveAction ==
    /\ logged_in
    /\ IF ~guard({"CHRO"})
       THEN /\ last' = Report("action", "AccessDenied")
            /\ UNCHANGED actions_df
       ELSE LET employee_df_full == read_csv(employees)
                employee_df_view ==
                    filter_employee_data(employee_df_full, user.role, user.department)
                scoped_df == SelectSeq(employee_df_view,
                                       LAMBDA r : r.RiskBand \in {"High", "Medium"})
                view == exit_merged(read_csv(exit_df), read_csv(actions_df),
                                    employee_df_full)
            IN  \E n \in 1..Len(scoped_df) :
                  LET emp_id == scoped_df[n].EmployeeID
                      emp == scoped_df[CHOOSE x \in 1..Len(scoped_df) :
                                          /\ scoped_df[x].EmployeeID = emp_id
                                          /\ \A y \in 1..Len(scoped_df) :
                                                scoped_df[y].EmployeeID = emp_id => y >= x]
                  IN  \E nudge \in smart_action_nudge(view, emp) :
                      \E p \in 1..Len(nudge.available) :
                        LET recommended_action == nudge.available[p]
                        IN  /\ recommended_action \in ActionChoices
                            /\ guard({"CHRO", "HRBP", "Manager"})
                            /\ IF emp.Department /= user.department /\ user.role /= "CHRO"
                               THEN /\ last' = Report("action", "PreconditionNotMet")
                                    /\ UNCHANGED actions_df
                               ELSE /\ Len(actions_df) < MaxActions
                                    /\ actions_df' =
                                          Append(read_csv(actions_df),
                                                 ActionRow(emp.EmployeeID, emp.Department,
                                                           emp.AttritionRisk, emp.RiskBand,
                                                           recommended_action, "Pending", ""))
                                    /\ last' = Report("action", "ok")
    /\ UNCHANGED <<logged_in, user, preview_df, new_weights, risk_config, employees,
                   exit_df, probe>>

\* Save Outcome (tab 6): the last Action Record of the selected employee gets the
\* outcome and its date.
SaveOutcome ==
    /\ logged_in
    /\ IF ~guard({"CHRO"})
       THEN /\ last' = Report("outcome", "AccessDenied")
            /\ UNCHANGED actions_df
       ELSE /\ actions_df /= <<>>
            /\ guard({"CHRO", "HRBP"})
            /\ \E j \in 1..Len(actions_df), outcome \in Outcomes, outcome_date \in DateInputs :
                  LET loaded == read_csv(actions_df)
                      emp_id == loaded[j].EmployeeID
                      idx == CHOOSE x \in 1..Len(loaded) :
                                /\ loaded[x].EmployeeID = emp_id
                                /\ \A y \in 1..Len(loaded) :
                                      loaded[y].EmployeeID = emp_id => y <= x
                  IN  actions_df' = [loaded EXCEPT ![idx].OutcomeStatus = outcome,
                                                   ![idx].OutcomeDate = outcome_date]
            /\ last' = Report("outcome", "ok")
    /\ UNCHANGED <<logged_in, user, preview_df, new_weights, risk_config, employees,
                   exit_df, probe>>

\* Import & Standardize Data (tab 7).  The rows whose EmployeeID, cast to str, is not
\* among the Employee table's, cast to str, are left out; the rest is appended and
\* written, and the pass ends in st.rerun().  The check of ExitDate stands after
\* st.rerun() and is never run.
ImportExits ==
    /\ logged_in
    /\ IF ~guard({"CHRO"})
       THEN /\ last' = Report("import", "AccessDenied")
            /\ UNCHANGED exit_df
       ELSE /\ guard({"CHRO", "HRBP"})
            /\ \E exit_upload \in ExitUploadFiles :
                  LET raw_df == read_csv(exit_upload)
                      standardized_df ==
                          [i \in 1..Len(raw_df) |->
                              [raw_df[i] EXCEPT !.EmployeeID = astype_str(@),
                                                !.SecondaryExitReason = "None"]]
                      employee_df_full == read_csv(employees)
                      valid_ids == { astype_str(employee_df_full[i].EmployeeID) :
                                        i \in 1..Len(employee_df_full) }
                      kept == SelectSeq(standardized_df,
                                        LAMBDA r : r.EmployeeID \in valid_ids)
                  IN  /\ Len(exit_df) + Len(kept) <= MaxExits
                      /\ exit_df' = read_csv(exit_df) \o kept
                      /\ last' = ImportReport(exit_upload,
                                              Len(standardized_df) - Len(kept), Len(kept))
    /\ UNCHANGED <<logged_in, user, preview_df, new_weights, risk_config, employees,
                   actions_df, probe>>

\* Save Exit Intelligence (tab 7): offered for the employees some Action Record
\* marks Left.
SaveExit ==
    /\ logged_in
    /\ IF ~guard({"CHRO"})
       THEN /\ last' = Report("exit", "AccessDenied")
            /\ UNCHANGED exit_df
       ELSE /\ guard({"CHRO", "HRBP"})
            /\ \E j \in 1..Len(actions_df), exit_date \in DateInputs,
                  primary_reason \in ExitReasons, action_taken \in ActionTakenInputs :
                  LET loaded == read_csv(actions_df)
                  IN  /\ loaded[j].OutcomeStatus = "Left"
                      /\ Len(exit_df) < MaxExits
                      /\ exit_df' = Append(read_csv(exit_df),
                                           ExitRow(loaded[j].EmployeeID, exit_date,
                                                   primary_reason, action_taken))
            /\ last' = Report("exit", "ok")
    /\ UNCHANGED <<logged_in, user, preview_df, new_weights, risk_config, employees,
                   actions_df, probe>>

NextCase ==
    \/ SaveAction
    \/ SaveOutcome
    \/ ImportExits
    \/ SaveExit
    \/ Apply

SpecCase == InitCase /\ [][NextCase]_vars

---------------------------------------------------------------------------
(* The action nudge of tab 3 computed on its own, over every Action and Exit table
   of the bounded size: one at-risk employee is selected, and exits are on file for
   him, for an employee of his role in another department and for an employee of
   his department in another role. *)

\* All sequences over S of length at most n.
SeqsUpTo(S, n) == UNION { [1..m -> S] : m \in 0..n }

\* E1 is at risk (40.91, Medium); E2 and E3 score 16.67 (Low) and are not offered.
NudgeEmployees ==
    << EmployeeRow("E1", "HR", "Staff", Survey(3, 3, 3, 3, 1), DefaultWeights),
       EmployeeRow("E2", "Sales", "Staff", Survey(5, 5, 5, 5, 1), DefaultWeights),
       EmployeeRow("E3", "HR", "Manager", Survey(5, 5, 5, 5, 1), DefaultWeights) >>

NudgeActionRows ==
    { ActionRow(id, "HR", 4091, "Medium", a, "Left", "2024-01-31") :
         id \in {"E1", "E2"},
         a \in {"Career Path Discussion", "Compensation Review"} }

NudgeExitRows ==
    { ExitRow(id, "2024-01-31", reason, taken) :
         id \in {"E1", "E2", "E3"},
         reason \in {"Compensation", "Career Growth"},
         taken \in {"Yes", "No"} }

InitNudge ==
    /\ logged_in = TRUE
    /\ user = [role |-> "CHRO", department |-> "All"]
    /\ preview_df = <<>>
    /\ new_weights = DefaultWeights
    /\ risk_config = <<>>
    /\ employees = NudgeEmployees
    /\ actions_df \in SeqsUpTo(NudgeActionRows, MaxActions)
    /\ exit_df \in SeqsUpTo(NudgeExitRows, MaxExits)
    /\ last = Report("login", "ok")
    /\ probe = [NoProbe EXCEPT !.fn = "args:smart_action_nudge", !.emp = 1]

\* The pass of tab 3 up to the Recommended Action selectbox, for the employee at
\* place probe.emp of the at-risk list.
NudgeCall ==
    /\ probe.fn = "args:smart_action_nudge"
    /\ LET employee_df_full == read_csv(employees)
           employee_df_view ==
               filter_employee_data(employee_df_full, user.role, user.department)
           scoped_df == SelectSeq(employee_df_view,
                                  LAMBDA r : r.RiskBand \in {"High", "Medium"})
           view == exit_merged(read_csv(exit_df), read_csv(actions_df), employee_df_full)
       IN  \E nudge \in smart_action_nudge(view, scoped_df[probe.emp]) :
              probe' = [probe EXCEPT !.fn = "smart_action_nudge",
                                     !.likely = nudge.likely,
                                     !.avoid = nudge.avoid,
                                     !.available = nudge.available]
    /\ UNCHANGED <<logged_in, user, preview_df, new_weights, risk_config, employees,
                   actions_df, exit_df, last>>

NextNudge ==
    \/ NudgeCall

SpecNudge == InitNudge /\ [][NextNudge]_vars

---------------------------------------------------------------------------
(* The exit learning layer computed on its own: one employee with up to MaxFailed
   Action Records over three actions, and exits of his with and without an action
   taken, of another reason, and of an employee without any Action Record. *)

LearnReasons == {"Compensation", "Career Growth"}

LearnActionRows ==
    { ActionRow("E1", "HR", 4091, "Medium", a, "Left", "2024-01-31") :
         a \in {"Career Path Discussion", "Compensation Review",
                "Workload Rebalancing"} }

LearnExitRows ==
    { ExitRow("E1", "2024-01-31", "Compensation", "Yes"),
      ExitRow("E1", "2024-01-31", "Compensation", "No"),
      ExitRow("E1", "2024-01-31", "Career Growth", "Yes"),
      ExitRow("E3", "2024-01-31", "Compensation", "Yes") }

InitLearn ==
    /\ logged_in = TRUE
    /\ user = [role |-> "CHRO", department |-> "All"]
    /\ preview_df = <<>>
    /\ new_weights = DefaultWeights
    /\ risk_config = <<>>
    /\ employees = NudgeEmployees
    /\ actions_df \in SeqsUpTo(LearnActionRows, MaxFailed)
    /\ exit_df \in SeqsUpTo(LearnExitRows, MaxExits)
    /\ last = Report("login", "ok")
    /\ probe = [NoProbe EXCEPT !.fn = "args:failed_action_map"]

\* The learning layer of one pass, and the lookup failed_action_map.get(reason):
\* probe.avoid is the entry of the reason, <<>> when the map has none.
FailedMapCall ==
    /\ probe.fn = "args:failed_action_map"
    /\ LET view == exit_merged(read_csv(exit_df), read_csv(actions_df),
                               read_csv(employees))
       IN  \E reason \in LearnReasons :
              \E entry \in IF exit_df = <<>> \/ failed_action_map(view, reason) = {}
                            THEN { <<>> }
                            ELSE failed_action_map(view, reason) :
                 probe' = [probe EXCEPT !.fn = "failed_action_map",
                                        !.likely = reason,
                                        !.avoid = entry]
    /\ UNCHANGED <<logged_in, user, preview_df, new_weights, risk_config, employees,
                   actions_df, exit_df, last>>

NextLearn ==
    \/ FailedMapCall

SpecLearn == InitLearn /\ [][NextLearn]_vars

---------------------------------------------------------------------------
(* The retention rate of tab 6 computed on its own, over Action tables of up to
   MaxTracked records: so many Stayed, so many Left, so many Pending. *)

\* An Action table with s records Stayed, l Left and p Pending.
OutcomeTable(s, l, p) ==
    [i \in 1..(s + l + p) |->
        IF i <= s
        THEN ActionRow("E1", "HR", 4091, "Medium", "Compensation Review",
                       "Stayed", "2024-01-31")
        ELSE IF i <= s + l
        THEN ActionRow("E1", "HR", 4091, "Medium", "Compensation Review",
                       "Left", "2024-01-31")
        ELSE ActionRow("E1", "HR", 4091, "Medium", "Compensation Review",
                       "Pending", "")]

\* A bug: the records still Pending are counted in the divisor.
retention_rate_of_tracked(actions) ==
    LET total_tracked == Len(actions)
        stayed == Len(SelectSeq(actions, LAMBDA r : r.OutcomeStatus = "Stayed"))
    IN  IF total_tracked > 0 THEN RoundHalfEven(stayed * 1000, total_tracked) ELSE 0

\* retention_rate, in tenths of a percent:
\* round((stayed / (stayed + left)) * 100, 1) if (stayed + left) > 0 else 0
retention_rate(actions) ==
    LET stayed == Len(SelectSeq(actions, LAMBDA r : r.OutcomeStatus = "Stayed"))
        left == Len(SelectSeq(actions, LAMBDA r : r.OutcomeStatus = "Left"))
    IN  IF stayed + left > 0 THEN RoundHalfEven(stayed * 1000, stayed + left) ELSE 0

InitOutcome ==
    /\ logged_in = TRUE
    /\ user = [role |-> "CHRO", department |-> "All"]
    /\ preview_df = <<>>
    /\ new_weights = DefaultWeights
    /\ risk_config = <<>>
    /\ employees = NudgeEmployees
    /\ \E s, l, p \in 0..MaxTracked :
          /\ s + l + p <= MaxTracked
          /\ actions_df = OutcomeTable(s, l, p)
    /\ exit_df = <<>>
    /\ last = Report("login", "ok")
    /\ probe = [NoProbe EXCEPT !.fn = "args:retention_rate"]

\* The metrics of tab 6 in a pass without a click; an empty Action table gets the
\* warning and no metric.
RetentionCall ==
    /\ probe.fn = "args:retention_rate"
    /\ actions_df /= <<>>
    /\ probe' = [probe EXCEPT !.fn = "retention_rate",
                              !.rate = retention_rate(read_csv(actions_df))]
    /\ UNCHANGED <<logged_in, user, preview_df, new_weights, risk_config, employees,
                   actions_df, exit_df, last>>

NextOutcome ==
    \/ RetentionCall

SpecOutcome == InitOutcome /\ [][NextOutcome]_vars

---------------------------------------------------------------------------
(* The action effectiveness table of tab 5 computed on its own, over Employee
   tables of up to MaxRecords records and Action tables of up to MaxActions: E1 as
   scored when the action was recorded and as re-scored since under other
   weights, E2 with the NaN an apply can leave, and actions for E1, for E2 and
   for E3, who is in no Employee table. *)

\* risk_arrow(change), without the arrow glyph the label starts with; every
\* comparison with NaN is false, so NaN falls to the else branch.
risk_arrow(change) ==
    IF change = NaN THEN "No Change"
    ELSE IF change > 0 THEN "Risk Reduced"
    ELSE IF change < 0 THEN "Risk Increased"
    ELSE "No Change"

\* One row of merged_df (the columns the table shows and computes).
EffectRow(a, current) ==
    [EmployeeID |-> a.EmployeeID, SelectedAction |-> a.SelectedAction,
     Risk_At_Action |-> a.RiskScore, Risk_Current |-> current,
     Risk_Change |-> Minus(a.RiskScore, current),
     RiskMovement |-> risk_arrow(Minus(a.RiskScore, current))]

\* The rows a left join gives one Action Record: one for every Employee Record of
\* its EmployeeID, in the order of the Employee table, and one with a NaN
\* Risk_Current when there is none.
EffectRowsOf(a, emps) ==
    LET m == SelectSeq(emps, LAMBDA e : e.EmployeeID = a.EmployeeID)
    IN  IF m = <<>> THEN << EffectRow(a, NaN) >>
        ELSE [k \in 1..Len(m) |-> EffectRow(a, m[k].AttritionRisk)]

\* merged_df: actions_df left-joined with EmployeeID and AttritionRisk of
\* employee_df_full, in the order of actions_df, with Risk_Change and RiskMovement.
RECURSIVE merged_df(_, _)
merged_df(actions, emps) ==
    IF actions = <<>> THEN <<>>
    ELSE EffectRowsOf(Head(actions), emps) \o merged_df(Tail(actions), emps)

EffectEmployeeRows ==
    { EmployeeRow("E1", "HR", "Staff", Survey(3, 3, 3, 3, 1), DefaultWeights),
      EmployeeRow("E1", "HR", "Staff", Survey(3, 3, 3, 3, 1), Weights(5, 4, 4, 3, 20)),
      EmployeeRow("E1", "HR", "Staff", Survey(3, 3, 3, 3, 1), Weights(20, 0, 0, 0, 0)),
      EmployeeRow("E2", "HR", "Staff", Survey(3, 3, 3, 3, 1), DefaultWeights),
      [EmployeeRow("E2", "HR", "Staff", Survey(3, 3, 3, 3, 1), DefaultWeights)
          EXCEPT !.AttritionRisk = NaN, !.RiskBand = NaNText] }

EffectActionRows ==
    { ActionRow(id, "HR", 4091, "Medium", "Compensation Review", "Pending", "") :
         id \in {"E1", "E2", "E3"} }

InitEffect ==
    /\ logged_in = TRUE
    /\ user = [role |-> "CHRO", department |-> "All"]
    /\ preview_df = <<>>
    /\ new_weights = DefaultWeights
    /\ risk_config = <<>>
    /\ employees \in SeqsUpTo(EffectEmployeeRows, MaxRecords)
    /\ actions_df \in SeqsUpTo(EffectActionRows, MaxActions)
    /\ exit_df = <<>>
    /\ last = Report("login", "ok")
    /\ probe = [NoProbe EXCEPT !.fn = "args:merged_df"]

\* Tab 5 in one pass: the warning when either table is empty, merged_df otherwise.
EffectCall ==
    /\ probe.fn = "args:merged_df"
    /\ IF actions_df = <<>> \/ employees = <<>>
       THEN /\ probe' = [probe EXCEPT !.fn = "insufficient"]
            /\ last' = Report("effectiveness", "InsufficientData")
       ELSE /\ probe' = [probe EXCEPT
                            !.fn = "merged_df",
                            !.table = merged_df(read_csv(actions_df), read_csv(employees))]
            /\ last' = Report("effectiveness", "ok")
    /\ UNCHANGED <<logged_in, user, preview_df, new_weights, risk_config, employees,
                   actions_df, exit_df>>

NextEffect ==
    \/ EffectCall

SpecEffect == InitEffect /\ [][NextEffect]_vars

---------------------------------------------------------------------------
(* filter_employee_data called on its own: every Employee table of up to MaxRecords
   records of two departments (and a record whose Department is NaN), for every
   role the function names and for the departments HR, Sales and All. *)

FilterRoles == {"CHRO", "Admin", "HRBP", "Manager"}

FilterDepartments == {"HR", "Sales", "All"}

FilterRows ==
    { NudgeEmployees[i] : i \in 1..Len(NudgeEmployees) }
       \cup { [NudgeEmployees[2] EXCEPT !.Department = NaNText] }

InitFilter ==
    /\ logged_in = TRUE
    /\ user \in [role : FilterRoles, department : FilterDepartments]
    /\ preview_df = <<>>
    /\ new_weights = DefaultWeights
    /\ risk_config = <<>>
    /\ employees \in SeqsUpTo(FilterRows, MaxRecords)
    /\ actions_df = <<>>
    /\ exit_df = <<>>
    /\ last = Report("login", "ok")
    /\ probe = [NoProbe EXCEPT !.fn = "args:filter_employee_data"]

\* employee_df_view = filter_employee_data(employee_df_full, role, department)
FilterCall ==
    /\ probe.fn = "args:filter_employee_data"
    /\ probe' = [probe EXCEPT
                    !.fn = "filter_employee_data",
                    !.table = filter_employee_data(read_csv(employees), user.role,
                                                   user.department)]
    /\ UNCHANGED <<logged_in, user, preview_df, new_weights, risk_config, employees,
                   actions_df, exit_df, last>>

NextFilter ==
    \/ FilterCall

SpecFilter == InitFilter /\ [][NextFilter]_vars

---------------------------------------------------------------------------
(* The risk model called on its own: every survey quintuple of [1,5]^5 under a
   set of weight configurations, each also scaled by c; and every score of
   0.00 .. 100.00 classified. *)

SurveyDomain == [Keys -> 1..5]

\* default; 0.2 each; all zero; one factor only; stress at 1.0; all different
WeightInputs ==
    { DefaultWeights, Weights(4, 4, 4, 4, 4), Weights(0, 0, 0, 0, 0),
      Weights(20, 0, 0, 0, 0), Weights(5, 4, 4, 3, 20), Weights(1, 2, 3, 4, 5) }

Scale(c, w) == [k \in Keys |-> c * w[k]]

ScoreDomain == 0..10000

\* The arguments of a call that has not been made yet.
ScoreArgs ==
    { [NoProbe EXCEPT !.fn = "args:calculate_attrition_risk", !.sv = sv, !.w = w, !.c = c] :
          sv \in SurveyDomain, w \in WeightInputs, c \in 1..MaxScale }

BandArgs ==
    { [NoProbe EXCEPT !.fn = "args:risk_band", !.score = score] : score \in ScoreDomain }

InitScore ==
    /\ logged_in = FALSE
    /\ user = NoUser
    /\ preview_df = <<>>
    /\ new_weights = DefaultWeights
    /\ risk_config = <<>>
    /\ employees = <<>>
    /\ actions_df = <<>>
    /\ exit_df = <<>>
    /\ last = Report("start", "ok")
    /\ probe \in ScoreArgs \cup BandArgs

\* calculate_attrition_risk(sv, weights=w) and calculate_attrition_risk(sv, weights=c*w)
ScoreCall ==
    /\ probe.fn = "args:calculate_attrition_risk"
    /\ probe' = [probe EXCEPT
                   !.fn = "calculate_attrition_risk",
                   !.risk = calculate_attrition_risk(probe.sv, probe.w),
                   !.risk_scaled = calculate_attrition_risk(probe.sv, Scale(probe.c, probe.w)),
                   !.band = risk_band(calculate_attrition_risk(probe.sv, probe.w))]
    /\ UNCHANGED <<logged_in, user, preview_df, new_weights, risk_config, employees,
                   actions_df, exit_df, last>>

\* risk_band(score)
BandCall ==
    /\ probe.fn = "args:risk_band"
    /\ probe' = [probe EXCEPT !.fn = "risk_band", !.band = risk_band(probe.score)]
    /\ UNCHANGED <<logged_in, user, preview_df, new_weights, risk_config, employees,
                   actions_df, exit_df, last>>

NextScore ==
    \/ ScoreCall
    \/ BandCall

SpecScore == InitScore /\ [][NextScore]_vars

---------------------------------------------------------------------------
(* Properties *)

\* Every row of employees.csv carries the score and band of its survey under w.
ScoredUnder(emps, w) ==
    \A i \in 1..Len(emps) :
        /\ emps[i].AttritionRisk = calculate_attrition_risk(emps[i].sv, w)
        /\ emps[i].RiskBand = risk_band(emps[i].AttritionRisk)

\* C1: Save & Apply Model with no preview in the session reports the precondition
\* error and changes neither risk_config.json nor employees.csv.
C1_ApplyWithoutPreviewRejected ==
    [][ (last'.op = "apply" /\ ~HasPreview)
           => /\ last'.result = "PreconditionNotMet"
              /\ risk_config' = risk_config
              /\ employees' = employees ]_vars

\* C1 witness: the rejected apply happened while records and a configuration were stored.
C1_Witness ==
    /\ last = Report("apply", "PreconditionNotMet")
    /\ employees /= <<>>
    /\ risk_config /= <<>>

\* C2 (as claimed): after a successful apply the persisted configuration is the
\* candidate on the sliders and every Employee Record carries the score and band of
\* its stored survey values under that configuration.
C2_ApplyRoundTrip ==
    (last = Report("apply", "ok"))
        => /\ risk_config = <<new_weights>>
           /\ ScoredUnder(employees, load_risk_weights)

C5_CommitLeavesIdle ==
    [][ (last'.op = "apply" /\ last'.result = "ok") => ~HasPreview' ]_vars

\* C6 (as claimed): an apply is all-or-nothing: after the pass either the
\* configuration and the records are those before it, or the configuration is the
\* candidate and every record carries its score and band under the candidate.
C6_ApplyAllOrNothing ==
    [][ (last'.op = "apply")
           => \/ (risk_config' = risk_config /\ employees' = employees)
              \/ (risk_config' = <<new_weights>> /\ ScoredUnder(employees', new_weights)) ]_vars

\* C7: risk_config.json changes only in a Save & Apply Model pass of a CHRO session
\* that holds a preview, and a preview buffer is created or replaced only by a
\* Preview Impact pass of a CHRO session.
C7_OnlyChroTunes ==
    [][ /\ (risk_config' /= risk_config)
           => (last'.op = "apply" /\ user.role = "CHRO" /\ HasPreview)
        /\ (preview_df' /= preview_df /\ HasPreview')
           => (last'.op = "preview" /\ user.role = "CHRO") ]_vars

\* C7 witness: a CHRO has replaced the configuration, and later a session of
\* another role is open under it.
C7_Witness ==
    /\ risk_config /= <<>>
    /\ logged_in
    /\ user.role = "HRBP"
    /\ last.op = "entry"

\* C8: risk_band is High exactly from 70.00, Medium exactly from 40.00 to 69.99 and
\* Low exactly below 40.00.
C8_BandThresholds ==
    (probe.fn = "risk_band")
        => /\ (probe.band = "High") <=> (probe.score >= 7000)
           /\ (probe.band = "Medium") <=> (probe.score >= 4000 /\ probe.score < 7000)
           /\ (probe.band = "Low") <=> (probe.score < 4000)

\* C8 witness: the boundary 70.00 is classified High.
C8_Witness ==
    /\ probe.fn = "risk_band"
    /\ probe.score = 7000
    /\ probe.band = "High"

C10_ScaleInvariant ==
    (probe.fn = "calculate_attrition_risk") => (probe.risk = probe.risk_scaled)

\* C10 witness: 0.2 each against 1.0 each on an uneven survey answer.
C10_Witness ==
    /\ probe.fn = "calculate_attrition_risk"
    /\ probe.w = Weights(4, 4, 4, 4, 4)
    /\ probe.c = 5
    /\ probe.sv = Survey(1, 2, 3, 4, 5)
    /\ probe.risk = probe.risk_scaled

\* C11 (as claimed): every AttritionRisk in the Employee table, written by manual
\* entry, bulk upload or apply, is a number in [0.00, 100.00].
C11_RiskInRange ==
    \A i \in 1..Len(employees) : employees[i].AttritionRisk \in 0..10000

\* C12: with all five weights 0 the call returns a value and raises nothing: the
\* value is the one of a weight sum of 1 (raw score 0, so 0.00), and a second call
\* with the same survey and weights (c * 0 = 0) returns the same.
C12_ZeroWeightsDefined ==
    (probe.fn = "calculate_attrition_risk" /\ SumWeights(probe.w) = 0)
        => /\ probe.risk \in 0..10000
           /\ probe.risk = RoundHalfEven(10000 * 0, 6 * 1)
           /\ probe.risk_scaled = probe.risk

\* C12 witness: the worst survey answer scored under all-zero weights.
C12_Witness ==
    /\ probe.fn = "calculate_attrition_risk"
    /\ probe.w = Weights(0, 0, 0, 0, 0)
    /\ probe.sv = Survey(1, 1, 1, 1, 5)
    /\ probe.risk = 0
    /\ probe.band = "Low"

\* C13 (as claimed): a record that a pass writes or re-scores carries afterwards
\* AttritionRisk = score(its stored survey, W) and RiskBand = band(AttritionRisk),
\* W being the configuration in force at the end of that pass (the persisted one at
\* entry and upload, the one the apply installs at apply); a record no pass touches
\* keeps what it has.
C13_ScoredWhenWritten ==
    [][ \A i \in 1..Len(employees') :
           ( \/ i > Len(employees)
             \/ employees'[i].AttritionRisk /= employees[i].AttritionRisk
             \/ employees'[i].RiskBand /= employees[i].RiskBand
             \/ employees'[i].sv /= employees[i].sv )
           => /\ employees'[i].AttritionRisk =
                    calculate_attrition_risk(employees'[i].sv, load_risk_weights')
              /\ employees'[i].RiskBand = risk_band(employees'[i].AttritionRisk) ]_vars

\* C14 (as claimed): a Save & Predict Risk pass either reports the duplicate and
\* leaves employees.csv as it was, or appends one record whose EmployeeID no stored
\* record has.
C14_DuplicateRejected ==
    [][ (last'.op = "entry")
           => \/ /\ last'.result = "DuplicateKey"
                 /\ employees' = employees
              \/ /\ last'.result = "ok"
                 /\ Len(employees') = Len(employees) + 1
                 /\ \A i \in 1..Len(employees) :
                       employees[i].EmployeeID /= employees'[Len(employees')].EmployeeID
       ]_vars

\* C15 (as claimed): a successful exit import appends, after the Exit Records on
\* file, exactly the rows of the upload whose EmployeeID some Employee Record has,
\* as they are, and reports the number of the others.
C15_ImportKeepsKnownRows ==
    [][ (last'.op = "import" /\ last'.result = "ok")
           => LET kept == SelectSeq(last'.upload,
                                    LAMBDA r : \E i \in 1..Len(employees) :
                                                  employees[i].EmployeeID = r.EmployeeID)
              IN  /\ exit_df' = exit_df \o kept
                  /\ last'.skipped = Len(last'.upload) - Len(kept) ]_vars

\* C16 (as claimed): an import pass whose upload has an ExitDate that cannot be
\* read reports the invalid input and leaves exit_intelligence.csv as it was.
C16_UnreadableDateAborts ==
    [][ ( /\ last'.op = "import"
          /\ last'.result /= "AccessDenied"
          /\ \E i \in 1..Len(last'.upload) : ~Parseable(last'.upload[i].ExitDate) )
           => /\ last'.result = "InvalidInput"
              /\ exit_df' = exit_df ]_vars

C18_OutsideDepartmentRejected ==
    [][ ( /\ last'.op = "action"
          /\ user.role \in {"HRBP", "Manager"}
          /\ employees /= <<>>
          /\ \A i \in 1..Len(employees) : employees[i].Department /= user.department )
           => /\ last'.result = "PreconditionNotMet"
              /\ actions_df' = actions_df ]_vars

\* Place of an action in the catalog.
CatalogIndex(a) == CHOOSE p \in 1..Len(ActionCatalog) : ActionCatalog[p] = a

\* C19: when a likely exit reason is found and the failed-action map has an entry
\* for it, the list offered is the catalog without the at most two actions of that
\* entry, the others in catalog order; otherwise it is the catalog.  With
\* Compensation Review and Career Path Discussion failed for Compensation the six
\* others are offered in their order.
C19_RecommendationFilter ==
    (probe.fn = "smart_action_nudge")
        => LET view == exit_merged(exit_df, actions_df, employees)
               avoided == { probe.avoid[p] : p \in 1..Len(probe.avoid) }
               offered == { probe.available[p] : p \in 1..Len(probe.available) }
               catalog == { ActionCatalog[p] : p \in 1..Len(ActionCatalog) }
               entry == { v.SelectedAction :
                            v \in { x \in view : /\ x.ActionTaken = "Yes"
                                                  /\ x.PrimaryExitReason = probe.likely
                                                  /\ x.j /= 0 } }
           IN  IF probe.likely /= NoReason /\ entry /= {}
               THEN /\ avoided \subseteq entry
                    /\ Cardinality(avoided) = (IF Cardinality(entry) < 2
                                               THEN Cardinality(entry) ELSE 2)
                    /\ offered = catalog \ avoided
                    /\ Len(probe.available) = Len(ActionCatalog) - Cardinality(avoided)
                    /\ \A p, q \in 1..Len(probe.available) : p < q =>
                          CatalogIndex(probe.available[p]) < CatalogIndex(probe.available[q])
                    /\ (probe.likely = "Compensation"
                          /\ avoided = {"Compensation Review", "Career Path Discussion"})
                       => probe.available =
                             << "Manager Coaching / 1:1", "Internal Role Movement",
                                "Workload Rebalancing", "Training / Upskilling",
                                "Engagement Survey Follow-up", "No Action - Monitor" >>
               ELSE probe.available = ActionCatalog

\* C19 witness: Compensation Review and Career Path Discussion failed for
\* Compensation, the likely reason, and six actions are offered.
C19_Witness ==
    /\ probe.fn = "smart_action_nudge"
    /\ probe.likely = "Compensation"
    /\ { probe.avoid[p] : p \in 1..Len(probe.avoid) } =
          {"Compensation Review", "Career Path Discussion"}
    /\ Len(probe.available) = 6
    /\ probe.available[1] = "Manager Coaching / 1:1"

C21_FailedActionMap ==
    (probe.fn = "failed_action_map")
        => LET rows == { v \in exit_merged(exit_df, actions_df, employees) :
                           /\ exit_df[v.i].ActionTaken = "Yes"
                           /\ exit_df[v.i].PrimaryExitReason = probe.likely
                           /\ v.j /= 0 }
               count(a) == Cardinality({ v \in rows : actions_df[v.j].SelectedAction = a })
               counted == { actions_df[v.j].SelectedAction : v \in rows }
               kept == { probe.avoid[p] : p \in 1..Len(probe.avoid) }
           IN  /\ kept \subseteq counted
               /\ Len(probe.avoid) = Cardinality(kept)
               /\ Cardinality(kept) = (IF Cardinality(counted) < 2
                                       THEN Cardinality(counted) ELSE 2)
               /\ \A a \in kept : \A b \in counted \ kept : count(a) >= count(b)
               /\ (rows = {}) => probe.avoid = <<>>

\* C21 witness: three actions were taken before exits of reason Compensation, one
\* of them twice; the entry holds that one and one of the two others.
C21_Witness ==
    /\ probe.fn = "failed_action_map"
    /\ probe.likely = "Compensation"
    /\ Len(actions_df) = 4
    /\ Cardinality({ actions_df[j].SelectedAction : j \in 1..Len(actions_df) }) = 3
    /\ Cardinality({ j \in 1..Len(actions_df) :
                        actions_df[j].SelectedAction = "Workload Rebalancing" }) = 2
    /\ \E i \in 1..Len(exit_df) : /\ exit_df[i].EmployeeID = "E1"
                                  /\ exit_df[i].PrimaryExitReason = "Compensation"
                                  /\ exit_df[i].ActionTaken = "Yes"
    /\ Len(probe.avoid) = 2
    /\ \E p \in 1..2 : probe.avoid[p] = "Workload Rebalancing"

\* Number of Action Records with the outcome o.
OutcomeCount(o) ==
    Cardinality({ i \in 1..Len(actions_df) : actions_df[i].OutcomeStatus = o })

\* C22 as stated: the retention rate is exactly stayed / (stayed + left) * 100 when
\* stayed + left > 0, and 0 otherwise.
C22_RetentionRate ==
    (probe.fn = "retention_rate")
        => IF OutcomeCount("Stayed") + OutcomeCount("Left") > 0
           THEN probe.rate * (OutcomeCount("Stayed") + OutcomeCount("Left"))
                   = OutcomeCount("Stayed") * 1000
           ELSE probe.rate = 0

\* C22 as computed: the retention rate is stayed / (stayed + left) * 100 rounded to
\* one decimal when stayed + left > 0, and 0 otherwise; the records still Pending
\* are not in the divisor (3 Stayed, 2 Left, 5 Pending: 60.0; all Pending: 0).
C22_RetentionRateRounded ==
    (probe.fn = "retention_rate")
        => LET stayed == OutcomeCount("Stayed")
               left == OutcomeCount("Left")
               exact10 == stayed * 1000
               off == probe.rate * (stayed + left) - exact10
           IN  /\ IF stayed + left > 0
                  THEN /\ 2 * off <= stayed + left
                       /\ 2 * off >= 0 - (stayed + left)
                  ELSE probe.rate = 0
               /\ (stayed = 3 /\ left = 2 /\ OutcomeCount("Pending") = 5)
                     => probe.rate = 600

\* C22 witness: 3 Stayed, 2 Left and 5 Pending, and the rate shown is 60.0.
C22_Witness ==
    /\ probe.fn = "retention_rate"
    /\ OutcomeCount("Stayed") = 3
    /\ OutcomeCount("Left") = 2
    /\ OutcomeCount("Pending") = 5
    /\ probe.rate = 600

\* C23: on every row of the effectiveness table the risk change is the risk at the
\* action less the current risk, and the label is Risk Reduced exactly for a change
\* above 0, Risk Increased exactly for a change below 0 and No Change exactly for a
\* change of 0.
C23_MovementLabel ==
    (probe.fn = "merged_df")
        => \A p \in 1..Len(probe.table) :
              LET r == probe.table[p]
              IN  /\ (r.Risk_Current /= NaN)
                        => r.Risk_Change = r.Risk_At_Action - r.Risk_Current
                  /\ (r.RiskMovement = "Risk Reduced")
                        <=> (r.Risk_Change /= NaN /\ r.Risk_Change > 0)
                  /\ (r.RiskMovement = "Risk Increased")
                        <=> (r.Risk_Change /= NaN /\ r.Risk_Change < 0)
                  /\ (r.RiskMovement = "No Change") <=> (r.Risk_Change = 0)

\* C24: the effectiveness table has one row for every Action Record, in their
\* order, with the record's EmployeeID and RiskScore; the row of an action whose
\* EmployeeID is not in the Employee table has a null current risk.
C24_OneRowPerAction ==
    (probe.fn = "merged_df")
        => /\ Len(probe.table) = Len(actions_df)
           /\ \A j \in 1..Len(actions_df) :
                 j <= Len(probe.table) =>
                    /\ probe.table[j].EmployeeID = actions_df[j].EmployeeID
                    /\ probe.table[j].Risk_At_Action = actions_df[j].RiskScore
                    /\ (\A k \in 1..Len(employees) :
                            employees[k].EmployeeID /= actions_df[j].EmployeeID)
                          => probe.table[j].Risk_Current = NaN

\* C25: filter_employee_data returns every row to a CHRO or an Admin, and to an
\* HRBP or a Manager of department All; to an HRBP or a Manager of another
\* department it returns exactly the rows of that department; what it returns is
\* always rows of the input in their order, and the input is left as it was.
C25_FilterEmployeeData ==
    [][ (probe'.fn = "filter_employee_data" /\ probe.fn /= "filter_employee_data")
          => LET out == probe'.table
                 own == { i \in 1..Len(employees) :
                            employees[i].Department = user.department }
             IN  /\ employees' = employees
                 /\ \E f \in [1..Len(out) -> 1..Len(employees)] :
                       /\ \A p, q \in 1..Len(out) : p < q => f[p] < f[q]
                       /\ \A p \in 1..Len(out) : out[p] = employees[f[p]]
                       /\ IF user.role \in {"CHRO", "Admin"} \/ user.department = "All"
                          THEN { f[p] : p \in 1..Len(out) } = 1..Len(employees)
                          ELSE { f[p] : p \in 1..Len(out) } = own ]_vars

\* C25 witness: a Manager of HR has been given the one HR row of a table that
\* holds a Sales row too.
C25_Witness ==
    /\ probe.fn = "filter_employee_data"
    /\ user = [role |-> "Manager", department |-> "HR"]
    /\ Len(employees) = 2
    /\ employees[1].Department = "Sales"
    /\ employees[2].Department = "HR"
    /\ probe.table = << employees[2] >>

\* C26: a manual Exit Record is made only for an EmployeeID that an Action Record
\* marks Left at that time, and every pass leaves the Exit Records on file as they
\* were, in their places: an exit is only ever added after them.
C26_ManualExitAppendOnly ==
    [][ /\ Len(exit_df') >= Len(exit_df)
        /\ \A i \in 1..Len(exit_df) : exit_df'[i] = exit_df[i]
        /\ (last'.op = "exit" /\ last'.result = "ok")
              => /\ Len(exit_df') = Len(exit_df) + 1
                 /\ \E j \in 1..Len(actions_df) :
                       /\ actions_df[j].EmployeeID = exit_df'[Len(exit_df')].EmployeeID
                       /\ actions_df[j].OutcomeStatus = "Left" ]_vars

\* C27: no earlier role guard halts the pass in which an HRBP or a Manager goes to
\* record an action decision for an at-risk employee of the own department, or the
\* pass in which an HRBP goes to save an outcome update: neither ends in the access
\* error.
C27_GuardedOperationsReachable ==
    [][ ( \/ /\ last'.op = "action"
              /\ user.role \in {"HRBP", "Manager"}
              /\ \E i \in 1..Len(employees) :
                    /\ employees[i].Department = user.department
                    /\ employees[i].RiskBand \in {"High", "Medium"}
          \/ /\ last'.op = "outcome"
              /\ user.role = "HRBP" )
           => last'.result /= "AccessDenied" ]_vars

\* C28: a click on Logout ends the session: after the pass no session key is left
\* (logged_in, user, the preview buffer), and nothing is available until the next
\* login.
C28_LogoutEndsSession ==
    [][ (last'.op = "logout")
           => /\ last'.result = "ok"
              /\ ~logged_in'
              /\ user' = NoUser
              /\ preview_df' = <<>> ]_vars

====
